---- MODULE Spec2Model ----
(***************************************************************************)
(* Model of the QR menu API (src/main.py): the order store and its         *)
(* lifecycle endpoints, and the table identity store (token and PIN        *)
(* mappings) with its admin endpoints.  Each endpoint handler is one       *)
(* action: it loads the backing JSON file, works on the loaded value and   *)
(* writes the whole value back.  The last HTTP response is kept in         *)
(* `response` so that the outcome of a call is part of the state.  The     *)
(* robot logs dashboard reads the mission log the robot writes and never   *)
(* writes a file.                                                          *)
(***************************************************************************)
EXTENDS Integers, Sequences, FiniteSets, TLC

VARIABLES
    orders_file,          \* content of ORDERS_FILE: a JSON list of order objects
    table_mapping_file,   \* content of TABLE_MAPPING_FILE: a JSON object token -> table number
    pin_mapping_file,     \* content of PIN_MAPPING_FILE: a JSON object pin -> table number
    response,             \* the last HTTP response: [op, code, body]
    handlers,             \* per server process: the local state of its handler in progress
    uuid_calls,           \* number of uuid4() calls made for order ids by handlers in progress
    half_provisioned,     \* TRUE while the token file is of a provisioning whose PIN file is unwritten
    robot_data_log_file   \* ROBOT_DATA_LOG_FILE, written by the robot: absent, unreadable or a JSON object

\* what the store endpoints, run one after another, leave alone
aux == <<handlers, uuid_calls, half_provisioned, robot_data_log_file>>

vars == <<orders_file, table_mapping_file, pin_mapping_file, response, aux>>

(***************************************************************************)
(* Bounds of the model.                                                    *)
(***************************************************************************)
\* the order store holds at most MaxOrders orders
MaxOrders == 2
\* table numbers of requests are drawn from 1..MaxTables; the identity
\* store holds at most MaxTables entries
MaxTables == 2

(***************************************************************************)
(* Request inputs.                                                         *)
(***************************************************************************)
\* str(uuid.uuid4()) of the k-th created order.  uuid4 values are taken to be
\* distinct; which value each call returns does not matter to any handler
\* (ids are only compared for equality), so the k-th call returns the k-th id.
OrderUUID(k) == "uuid-" \o ToString(k)
OrderUUIDs == {OrderUUID(k) : k \in 1..MaxOrders}
\* an order id no order was ever given
UnknownOrderId == "unknown-id"
TableNumbers == 1..MaxTables
\* OrderCreate.table_number values
OrderTables == {1, 2}
Timestamps == {"2024-01-01T10:00:00", "2024-01-01T11:00:00"}
\* OrderCreate.status and OrderUpdate.status are any string
StatusInputs == {"pending", "ready", "delivered", "failed", "bogus"}
\* one OrderItem, as item.dict() stores it
TheItem == [id |-> 7, name |-> "tea", description |-> "", price |-> 250,
            quantity |-> 2, category |-> "drinks", image |-> ""]
ItemLists == {<<TheItem>>}
Totals == {500}

(***************************************************************************)
(* Python dicts, as JSON objects keep them: insertion-ordered sequences of *)
(* <<key, value>> pairs with distinct keys.                                *)
(***************************************************************************)
DictKeys(d) == {d[i][1] : i \in 1..Len(d)}

DictValues(d) == [i \in 1..Len(d) |-> d[i][2]]

DictHas(d, k) == \E i \in 1..Len(d) : d[i][1] = k

\* d[k], for k a key of d
DictGet(d, k) == d[CHOOSE i \in 1..Len(d) : d[i][1] = k][2]

\* d[k] = v: in place when k is a key, appended otherwise
DictSet(d, k, v) ==
    IF DictHas(d, k)
    THEN [i \in 1..Len(d) |-> IF d[i][1] = k THEN <<k, v>> ELSE d[i]]
    ELSE Append(d, <<k, v>>)

\* the first entry deleted whatever the key
DictDel_First(d, k) == Tail(d)

\* del d[k]
DictDel(d, k) == SelectSeq(d, LAMBDA e : e[1] # k)

(***************************************************************************)
(* Order store.                                                            *)
(***************************************************************************)
load_orders == orders_file

\* a save that loses the oldest order
save_orders_DropOldest(orders) ==
    orders_file' = IF Len(orders) > 1 THEN Tail(orders) ELSE orders

save_orders(orders) == orders_file' = orders

\* the status create_order stores for a request body: order.status, which is
\* the body's "status" when it has one and "pending" otherwise
CreateStatus(order_status) == order_status

\* the order object create_order builds
order_data(order_id, table_number, items, total, timestamp, order_status) ==
    [order_id |-> order_id,
     table_number |-> table_number,
     items |-> items,
     total |-> total,
     timestamp |-> timestamp,
     status |-> CreateStatus(order_status)]

\* POST /api/qr-menu/orders
create_order(table_number, items, total, timestamp, order_status) ==
    /\ Len(orders_file) < MaxOrders
    /\ LET orders == load_orders
           order_id == OrderUUID(Len(orders) + 1)
           new == order_data(order_id, table_number, items, total,
                             timestamp, order_status)
       IN  /\ save_orders(Append(orders, new))
           /\ response' = [op |-> "create_order", code |-> 200,
                           body |-> order_id]
    /\ UNCHANGED <<table_mapping_file, pin_mapping_file, aux>>

valid_statuses == <<"pending", "ready", "delivered", "failed">>

\* the check left out: every status passes
InvalidStatus_NoCheck(s) == FALSE

\* update.status not in valid_statuses
InvalidStatus(s) == \A i \in 1..Len(valid_statuses) : valid_statuses[i] # s

\* the search falling back to the first order when no id matches
FindOrder_Default(orders, order_id) ==
    IF \E i \in 1..Len(orders) : orders[i].order_id = order_id
    THEN CHOOSE i \in 1..Len(orders) :
            /\ orders[i].order_id = order_id
            /\ \A j \in 1..(i - 1) : orders[j].order_id # order_id
    ELSE IF Len(orders) > 0 THEN 1 ELSE 0

\* index of the first order with this order_id, 0 when there is none
FindOrder(orders, order_id) ==
    IF \E i \in 1..Len(orders) : orders[i].order_id = order_id
    THEN CHOOSE i \in 1..Len(orders) :
            /\ orders[i].order_id = order_id
            /\ \A j \in 1..(i - 1) : orders[j].order_id # order_id
    ELSE 0

\* the assignment left out
SetStatus_Keep(orders, idx, s) == orders

\* the assignment made on every order of the list
SetStatus_All(orders, idx, s) ==
    [i \in 1..Len(orders) |-> [orders[i] EXCEPT !.status = s]]

\* order["status"] = update.status on the order found
SetStatus(orders, idx, s) == [orders EXCEPT ![idx].status = s]

\* the lookup done before the status check
UpdateOutcome_LookupFirst(orders, order_id, s) ==
    IF FindOrder(orders, order_id) = 0 THEN 404
    ELSE IF InvalidStatus(s) THEN 400
    ELSE 200

\* the HTTP status update_order_status ends with: the status check comes
\* first, then the search
UpdateOutcome(orders, order_id, s) ==
    IF InvalidStatus(s) THEN 400
    ELSE IF FindOrder(orders, order_id) = 0 THEN 404
    ELSE 200

\* PATCH /api/qr-menu/orders/{order_id}
update_order_status(order_id, s) ==
    /\ LET orders == load_orders
           idx == FindOrder(orders, order_id)
           outcome == UpdateOutcome(orders, order_id, s)
       IN  IF outcome = 400
           THEN /\ response' = [op |-> "update_order_status", code |-> 400,
                                body |-> "Invalid status"]
                /\ UNCHANGED orders_file
           ELSE IF outcome = 404
           THEN /\ response' = [op |-> "update_order_status", code |-> 404,
                                body |-> "Order not found"]
                /\ UNCHANGED orders_file
           ELSE LET updated == SetStatus(orders, idx, s)
                IN  /\ save_orders(updated)
                    /\ response' = [op |-> "update_order_status", code |-> 200,
                                    body |-> updated[FindOrder(updated, order_id)]]
    /\ UNCHANGED <<table_mapping_file, pin_mapping_file, aux>>

\* the status get_ready_orders selects
ReadyStatus == "ready"

\* the table number left unformatted
ReadyOrderItem_Raw(o) ==
    [table_number |-> ToString(o.table_number), order_id |-> o.order_id]

\* ReadyOrderItem(table_number=f"Table_{...}", order_id=...)
ReadyOrderItem(o) ==
    [table_number |-> "Table_" \o ToString(o.table_number),
     order_id |-> o.order_id]

\* the list GET /api/qr-menu/orders/ready returns
ReadyOrders(orders) ==
    LET ready_orders == SelectSeq(orders, LAMBDA o : o.status = ReadyStatus)
    IN  IF ready_orders = <<>>
        THEN <<>>
        ELSE [i \in 1..Len(ready_orders) |-> ReadyOrderItem(ready_orders[i])]

\* GET /api/qr-menu/orders/ready
get_ready_orders ==
    /\ response' = [op |-> "get_ready_orders", code |-> 200,
                    body |-> ReadyOrders(load_orders)]
    /\ UNCHANGED <<orders_file, table_mapping_file, pin_mapping_file, aux>>

\* OrderCreate.timestamp is any string the client sends, the empty one
\* included
ListTimestamps == Timestamps \cup {""}
\* the `table` and `status` query parameters: <<>> for None, <<v>> for v
TableFilters == {<<>>} \cup {<<t>> : t \in OrderTables}
StatusFilters == {<<>>, <<"pending">>, <<"ready">>}

\* the code points of a timestamp string (ord of each character)
CodePoints(str) ==
    CASE str = "2024-01-01T10:00:00" ->
            <<50, 48, 50, 52, 45, 48, 49, 45, 48, 49, 84, 49, 48, 58, 48, 48,
              58, 48, 48>>
      [] str = "2024-01-01T11:00:00" ->
            <<50, 48, 50, 52, 45, 48, 49, 45, 48, 49, 84, 49, 49, 58, 48, 48,
              58, 48, 48>>
      [] OTHER -> <<>>

RECURSIVE LexLess(_, _)
\* Python's < on strings: lexicographic on code points, a proper prefix first
LexLess(a, b) ==
    IF b = <<>> THEN FALSE
    ELSE IF a = <<>> THEN TRUE
    ELSE IF Head(a) # Head(b) THEN Head(a) < Head(b)
    ELSE LexLess(Tail(a), Tail(b))

StrLess(a, b) == LexLess(CodePoints(a), CodePoints(b))

\* key=lambda x: x.get("timestamp", "")
TimestampKey(x) == IF "timestamp" \in DOMAIN x THEN x.timestamp ELSE ""

RECURSIVE InsertDescending(_, _)
\* x placed after every element whose key is not below its own
InsertDescending(x, sorted) ==
    IF sorted = <<>> THEN <<x>>
    ELSE IF StrLess(TimestampKey(Head(sorted)), TimestampKey(x))
    THEN <<x>> \o sorted
    ELSE <<Head(sorted)>> \o InsertDescending(x, Tail(sorted))

\* the list left in store order
SortNewestFirst_Unsorted(orders) == orders

RECURSIVE SortNewestFirst(_)
\* orders.sort(key=..., reverse=True): stable, equal keys keep their order
SortNewestFirst(orders) ==
    IF orders = <<>> THEN <<>>
    ELSE InsertDescending(orders[Len(orders)],
                          SortNewestFirst(SubSeq(orders, 1, Len(orders) - 1)))

\* the two optional filters of get_orders
FilterOrders(orders, table, status) ==
    LET by_table == IF table # <<>>
                    THEN SelectSeq(orders, LAMBDA o : o.table_number = table[1])
                    ELSE orders
    IN  IF status # <<>>
        THEN SelectSeq(by_table, LAMBDA o : o.status = status[1])
        ELSE by_table

\* GET /api/qr-menu/orders
get_orders(table, status) ==
    /\ response' = [op |-> "get_orders", code |-> 200,
                    body |-> SortNewestFirst(
                                 FilterOrders(load_orders, table, status))]
    /\ UNCHANGED <<orders_file, table_mapping_file, pin_mapping_file, aux>>

(***************************************************************************)
(* Identity store: token -> table number and PIN -> table number.          *)
(***************************************************************************)
\* tokens an admin request body carries (TableMappingCreate.token is any
\* string, the empty one included)
BodyTokens == {"", "a"}
\* str(uuid.uuid4()).replace('-', '')[:12] of generate_table_token
TokenSuffixes == {"0a1b2c3d4e5f"}
\* values random.randint(1000, 9999) returns
PinDraws == {1000, 1001}
\* str(uuid.uuid4()).replace('-', '')[:4] of generate_table_pin: four hex
\* digits, which may all be decimal digits
PinFallbacks == {"1000", "9f3a"}
\* the attempts of generate_table_pin
max_attempts == 1000
\* the range configure_tables accepts
MinTotalTables == 1
MaxTotalTables == 100
\* TableConfig.total_tables values
TotalTablesInputs == {0, MaxTotalTables + 1} \cup (1..MaxTables)

load_table_mapping == table_mapping_file

save_table_mapping(mapping) == table_mapping_file' = mapping

load_pin_mapping == pin_mapping_file

save_pin_mapping(mapping) == pin_mapping_file' = mapping

\* the tokens generate_table_token(table_number) can return
generate_table_token(table_number) ==
    {"table" \o ToString(table_number) \o "_token_" \o short_uuid :
        short_uuid \in TokenSuffixes}

\* the PINs generate_table_pin(existing_pins) can return: the first draw that
\* is not in existing_pins, or, when every one of the max_attempts draws is in
\* existing_pins, the uuid fallback, which is not compared with existing_pins
generate_table_pin(existing_pins) ==
    {ToString(p) : p \in {q \in PinDraws : ToString(q) \notin existing_pins}}
    \cup (IF max_attempts = 0
             \/ \E q \in PinDraws : ToString(q) \in existing_pins
          THEN PinFallbacks
          ELSE {})

\* only the upper limit checked
TotalTablesInvalid_NoLower(total_tables) == total_tables > MaxTotalTables

\* the two range checks of configure_tables
TotalTablesInvalid(total_tables) ==
    total_tables < MinTotalTables \/ total_tables > MaxTotalTables

RECURSIVE ConfigureLoop(_, _, _, _, _)
\* the generation loop of configure_tables from table_num on: the set of
\* <<new_mapping, new_pin_mapping>> it can end with
ConfigureLoop(table_num, total_tables, new_mapping, new_pin_mapping, existing_pins) ==
    IF table_num > total_tables
    THEN {<<new_mapping, new_pin_mapping>>}
    ELSE UNION {ConfigureLoop(table_num + 1, total_tables,
                              DictSet(new_mapping, token, table_num),
                              DictSet(new_pin_mapping, pin, table_num),
                              existing_pins \cup {pin}) :
                   token \in generate_table_token(table_num),
                   pin \in generate_table_pin(existing_pins)}

\* POST /api/qr-menu/admin/tables/configure
configure_tables(total_tables) ==
    /\ IF TotalTablesInvalid(total_tables)
       THEN /\ response' = [op |-> "configure_tables", code |-> 400,
                            body |-> total_tables]
            /\ UNCHANGED <<table_mapping_file, pin_mapping_file>>
       ELSE \E r \in ConfigureLoop(1, total_tables, <<>>, <<>>, {}) :
               /\ save_table_mapping(r[1])
               /\ save_pin_mapping(r[2])
               /\ response' = [op |-> "configure_tables", code |-> 200,
                               body |-> total_tables]
    /\ UNCHANGED <<orders_file, aux>>

\* next((t for t, n in mapping.items() if n == table_number and t != skip), None):
\* <<>> for None, <<t>> for the first such token t.  skip is <<>> for no
\* excluded token and <<token>> for one.
FirstTokenOfTable(mapping, table_number, skip) ==
    LET hits == {i \in 1..Len(mapping) :
                    /\ mapping[i][2] = table_number
                    /\ (skip = <<>> \/ mapping[i][1] # skip[1])}
    IN  IF hits = {}
        THEN <<>>
        ELSE <<mapping[CHOOSE i \in hits : \A j \in hits : i <= j][1]>>

\* Python truth of the result of next(...): None and "" are false
Truthy(found) == found # <<>> /\ found[1] # ""

\* POST /api/qr-menu/admin/tables
create_table_mapping(token, table_number) ==
    /\ LET mapping == load_table_mapping
           existing_table == FirstTokenOfTable(mapping, table_number, <<>>)
       IN  IF DictHas(mapping, token)
           THEN /\ response' = [op |-> "create_table_mapping", code |-> 400,
                                body |-> "token exists"]
                /\ UNCHANGED table_mapping_file
           ELSE IF Truthy(existing_table)
           THEN /\ response' = [op |-> "create_table_mapping", code |-> 400,
                                body |-> "table number exists"]
                /\ UNCHANGED table_mapping_file
           ELSE /\ Len(mapping) < MaxTables
                /\ save_table_mapping(DictSet(mapping, token, table_number))
                /\ response' = [op |-> "create_table_mapping", code |-> 200,
                                body |-> table_number]
    /\ UNCHANGED <<orders_file, pin_mapping_file, aux>>

\* PUT /api/qr-menu/admin/tables/{token}
update_table_mapping(token, table_number) ==
    /\ LET mapping == load_table_mapping
           existing_token == FirstTokenOfTable(mapping, table_number, <<token>>)
       IN  IF ~DictHas(mapping, token)
           THEN /\ response' = [op |-> "update_table_mapping", code |-> 404,
                                body |-> "Token not found"]
                /\ UNCHANGED table_mapping_file
           ELSE IF Truthy(existing_token)
           THEN /\ response' = [op |-> "update_table_mapping", code |-> 400,
                                body |-> "table number exists"]
                /\ UNCHANGED table_mapping_file
           ELSE /\ save_table_mapping(DictSet(mapping, token, table_number))
                /\ response' = [op |-> "update_table_mapping", code |-> 200,
                                body |-> DictGet(mapping, token)]
    /\ UNCHANGED <<orders_file, pin_mapping_file, aux>>

\* DELETE /api/qr-menu/admin/tables/{token}
delete_table_mapping(token) ==
    /\ LET mapping == load_table_mapping
       IN  IF ~DictHas(mapping, token)
           THEN /\ response' = [op |-> "delete_table_mapping", code |-> 404,
                                body |-> "Token not found"]
                /\ UNCHANGED table_mapping_file
           ELSE /\ save_table_mapping(DictDel(mapping, token))
                /\ response' = [op |-> "delete_table_mapping", code |-> 200,
                                body |-> DictGet(mapping, token)]
    /\ UNCHANGED <<orders_file, pin_mapping_file, aux>>

\* the duplicate check left out
HasDuplicateTableNumbers_Never(mappings) == FALSE

\* len(table_numbers) != len(set(table_numbers))
HasDuplicateTableNumbers(mappings) ==
    LET table_numbers == DictValues(mappings)
    IN  Len(table_numbers) #
            Cardinality({table_numbers[i] : i \in 1..Len(table_numbers)})

\* POST /api/qr-menu/admin/tables/bulk
bulk_update_tables(mappings) ==
    /\ IF HasDuplicateTableNumbers(mappings)
       THEN /\ response' = [op |-> "bulk_update_tables", code |-> 400,
                            body |-> "Duplicate table numbers"]
            /\ UNCHANGED table_mapping_file
       ELSE /\ save_table_mapping(mappings)
            /\ response' = [op |-> "bulk_update_tables", code |-> 200,
                            body |-> Len(mappings)]
    /\ UNCHANGED <<orders_file, pin_mapping_file, aux>>

\* the tokens configure_tables can generate for the tables of the model
GeneratedTokens == UNION {generate_table_token(n) : n \in TableNumbers}

\* the {token} of a request path: a path segment is never empty
PathTokens == (BodyTokens \cup GeneratedTokens) \ {""}

\* TableMappingBulk.mappings values: JSON objects of at most MaxTables entries
BulkPayloads ==
    {d \in UNION {[1..k -> BodyTokens \X TableNumbers] : k \in 0..MaxTables} :
        \A i, j \in 1..Len(d) : i # j => d[i][1] # d[j][1]}

\* the {pin} of a request path
PathPins == {ToString(p) : p \in PinDraws} \cup PinFallbacks \cup {"0000"}

\* the lookup returning the first entry's number whatever the key
MappingGet_First(mapping, key) ==
    IF Len(mapping) > 0 THEN <<mapping[1][2]>> ELSE <<>>

\* mapping.get(key): <<>> for None, <<n>> for the table number n
MappingGet(mapping, key) ==
    IF DictHas(mapping, key) THEN <<DictGet(mapping, key)>> ELSE <<>>

\* the response of get_table_number for a token mapping
TableNumberResponse(mapping, token) ==
    LET table_number == MappingGet(mapping, token)
    IN  IF table_number = <<>>
        THEN [op |-> "get_table_number", code |-> 404, body |-> "Invalid token"]
        ELSE [op |-> "get_table_number", code |-> 200, body |-> table_number[1]]

\* GET /api/qr-menu/table/{token}
get_table_number(token) ==
    /\ response' = TableNumberResponse(load_table_mapping, token)
    /\ UNCHANGED <<orders_file, table_mapping_file, pin_mapping_file, aux>>

\* GET /api/qr-menu/table/pin/{pin}
get_table_number_from_pin(pin) ==
    /\ LET table_number == MappingGet(load_pin_mapping, pin)
       IN  response' =
             IF table_number = <<>>
             THEN [op |-> "get_table_number_from_pin", code |-> 404,
                   body |-> "Invalid PIN"]
             ELSE [op |-> "get_table_number_from_pin", code |-> 200,
                   body |-> table_number[1]]
    /\ UNCHANGED <<orders_file, table_mapping_file, pin_mapping_file, aux>>

\* one step of tables.sort(key=lambda x: x["table_number"]): x goes behind
\* the entries whose number is not above its own
RECURSIVE InsertByTableNumber(_, _)
InsertByTableNumber(x, sorted) ==
    IF sorted = <<>> THEN <<x>>
    ELSE IF x.table_number < Head(sorted).table_number
    THEN <<x>> \o sorted
    ELSE <<Head(sorted)>> \o InsertByTableNumber(x, Tail(sorted))

RECURSIVE TablesOfMapping(_, _)
\* the list of get_all_tables for the first n entries of a mapping: one
\* {"token", "table_number"} object per entry, sorted by table number, equal
\* numbers in the order of the file
TablesOfMapping(mapping, n) ==
    IF n = 0 THEN <<>>
    ELSE InsertByTableNumber(
             [token |-> mapping[n][1], table_number |-> mapping[n][2]],
             TablesOfMapping(mapping, n - 1))

\* the listing that writes the mapping back in the order of its answer
get_all_tables_SaveSorted ==
    /\ LET mapping == load_table_mapping
           tables == TablesOfMapping(mapping, Len(mapping))
       IN  /\ response' = [op |-> "get_all_tables", code |-> 200,
                           body |-> [tables |-> tables, total |-> Len(tables)]]
           /\ save_table_mapping(
                  [i \in 1..Len(tables) |->
                      <<tables[i].token, tables[i].table_number>>])
    /\ UNCHANGED <<orders_file, pin_mapping_file, aux>>

\* GET /api/qr-menu/admin/tables
get_all_tables ==
    /\ LET mapping == load_table_mapping
           tables == TablesOfMapping(mapping, Len(mapping))
       IN  response' = [op |-> "get_all_tables", code |-> 200,
                        body |-> [tables |-> tables, total |-> Len(tables)]]
    /\ UNCHANGED <<orders_file, table_mapping_file, pin_mapping_file, aux>>

\* the server processes that run handlers side by side
Procs == {1, 2}

\* the local state of a process that runs no handler
Idle == [pc |-> "idle"]

(***************************************************************************)
(* Initial state: the three files as the module creates them.              *)
(***************************************************************************)
Init ==
    /\ orders_file = <<>>
    /\ table_mapping_file = <<>>
    /\ pin_mapping_file = <<>>
    /\ response = [op |-> "none", code |-> 0, body |-> ""]
    /\ handlers = [p \in Procs |-> Idle]
    /\ uuid_calls = 0
    /\ half_provisioned = FALSE
    /\ robot_data_log_file = [kind |-> "absent"]

CreateOrderStep ==
    \E t \in OrderTables, it \in ItemLists, tot \in Totals,
       ts \in Timestamps, s \in StatusInputs :
        create_order(t, it, tot, ts, s)

UpdateOrderStatusStep ==
    \E id \in OrderUUIDs \cup {UnknownOrderId}, s \in StatusInputs :
        update_order_status(id, s)

OrderNext ==
    \/ CreateOrderStep
    \/ UpdateOrderStatusStep
    \/ get_ready_orders

\* the order endpoints, called one after another
OrderSpec == Init /\ [][OrderNext]_vars

ListCreateOrderStep ==
    \E t \in OrderTables, it \in ItemLists, tot \in Totals,
       ts \in ListTimestamps, s \in {"pending", "ready"} :
        create_order(t, it, tot, ts, s)

GetOrdersStep ==
    \E table \in TableFilters, status \in StatusFilters :
        get_orders(table, status)

OrderListNext ==
    \/ ListCreateOrderStep
    \/ GetOrdersStep

\* orders placed and listed, one request after another
OrderListSpec == Init /\ [][OrderListNext]_vars

ConfigureTablesStep == \E n \in TotalTablesInputs : configure_tables(n)

CreateTableMappingStep ==
    \E token \in BodyTokens, n \in TableNumbers : create_table_mapping(token, n)

UpdateTableMappingStep ==
    \E token \in PathTokens, n \in TableNumbers : update_table_mapping(token, n)

DeleteTableMappingStep == \E token \in PathTokens : delete_table_mapping(token)

BulkUpdateTablesStep == \E d \in BulkPayloads : bulk_update_tables(d)

IdentityNext ==
    \/ ConfigureTablesStep
    \/ CreateTableMappingStep
    \/ UpdateTableMappingStep
    \/ DeleteTableMappingStep
    \/ BulkUpdateTablesStep

\* the admin endpoints of the identity store, called one after another
IdentitySpec == Init /\ [][IdentityNext]_vars

(***************************************************************************)
(* configure_tables step by step: the two files are written one after the  *)
(* other, and the server process can be killed between the two writes.     *)
(***************************************************************************)
\* no process has a handler in progress
AllIdle == \A p \in Procs : handlers[p] = Idle

\* configure_tables up to and including save_table_mapping(new_mapping)
configure_tables_save_tokens(p, total_tables) ==
    /\ AllIdle
    /\ IF TotalTablesInvalid(total_tables)
       THEN /\ response' = [op |-> "configure_tables", code |-> 400,
                            body |-> total_tables]
            /\ UNCHANGED <<table_mapping_file, handlers, half_provisioned>>
       ELSE \E r \in ConfigureLoop(1, total_tables, <<>>, <<>>, {}) :
               /\ save_table_mapping(r[1])
               /\ handlers' = [handlers EXCEPT ![p] =
                     [pc |-> "save_pin_mapping", new_pin_mapping |-> r[2],
                      total_tables |-> total_tables]]
               /\ half_provisioned' = TRUE
               /\ UNCHANGED response
    /\ UNCHANGED <<orders_file, pin_mapping_file, uuid_calls,
                   robot_data_log_file>>

\* configure_tables from save_pin_mapping(new_pin_mapping) to its return
configure_tables_save_pins(p) ==
    /\ handlers[p].pc = "save_pin_mapping"
    /\ save_pin_mapping(handlers[p].new_pin_mapping)
    /\ response' = [op |-> "configure_tables", code |-> 200,
                    body |-> handlers[p].total_tables]
    /\ handlers' = [handlers EXCEPT ![p] = Idle]
    /\ half_provisioned' = FALSE
    /\ UNCHANGED <<orders_file, table_mapping_file, uuid_calls,
                   robot_data_log_file>>

\* the server is killed and started again: the handlers in progress are
\* lost, the files stay as they are
crash ==
    /\ ~AllIdle
    /\ handlers' = [p \in Procs |-> Idle]
    /\ response' = [op |-> "crash", code |-> 0, body |-> ""]
    /\ UNCHANGED <<orders_file, table_mapping_file, pin_mapping_file,
                   uuid_calls, half_provisioned,
                   robot_data_log_file>>

ConfigureSaveTokensStep ==
    \E p \in Procs, n \in TotalTablesInputs : configure_tables_save_tokens(p, n)

ConfigureSavePinsStep == \E p \in Procs : configure_tables_save_pins(p)

ResolveTokenStep == AllIdle /\ \E token \in PathTokens : get_table_number(token)

ResolvePinStep == AllIdle /\ \E pin \in PathPins : get_table_number_from_pin(pin)

TableAdminNext ==
    \/ CreateTableMappingStep
    \/ UpdateTableMappingStep
    \/ DeleteTableMappingStep
    \/ BulkUpdateTablesStep
    \/ ResolveTokenStep

\* the per-mapping admin endpoints and token resolution, on a store never
\* provisioned
TableAdminSpec == Init /\ [][TableAdminNext]_vars

ProvisionCrashNext ==
    \/ ConfigureSaveTokensStep
    \/ ConfigureSavePinsStep
    \/ crash
    \/ ResolveTokenStep
    \/ ResolvePinStep

\* provisioning and resolving on a server that can be killed at any point
ProvisionCrashSpec == Init /\ [][ProvisionCrashNext]_vars

(***************************************************************************)
(* create_order and update_order_status step by step, in server processes  *)
(* that share orders.json: a handler reads the file, and writes it back     *)
(* later; another process can read or write the file in between.           *)
(***************************************************************************)
\* the request bodies and paths of the step-wise handlers
StepTimestamp == "2024-01-01T10:00:00"
StepUpdateStatuses == {"ready", "bogus"}

\* the creates that have read the file and not yet drawn their uuid
CreatesInProgress == {q \in Procs : handlers[q].pc = "create_order"}

\* create_order up to orders = load_orders()
create_order_load(p, table_number, items, total, timestamp, order_status) ==
    /\ handlers[p] = Idle
    /\ uuid_calls + Cardinality(CreatesInProgress) < MaxOrders
    /\ handlers' = [handlers EXCEPT ![p] =
           [pc |-> "create_order", orders |-> load_orders,
            order |-> <<table_number, items, total, timestamp, order_status>>]]
    /\ UNCHANGED <<orders_file, table_mapping_file, pin_mapping_file, response,
                   uuid_calls, half_provisioned,
                   robot_data_log_file>>

\* the append made on the file as it is at the time of the write
AppendOrder_Reload(orders, new_order) == Append(orders_file, new_order)

\* orders.append(order_data)
AppendOrder(orders, new_order) == Append(orders, new_order)

\* create_order from uuid.uuid4() to its return
create_order_save(p) ==
    /\ handlers[p].pc = "create_order"
    /\ LET order == handlers[p].order
           order_id == OrderUUID(uuid_calls + 1)
           new == order_data(order_id, order[1], order[2], order[3],
                             order[4], order[5])
       IN  /\ save_orders(AppendOrder(handlers[p].orders, new))
           /\ response' = [op |-> "create_order", code |-> 200,
                           body |-> order_id]
    /\ uuid_calls' = uuid_calls + 1
    /\ handlers' = [handlers EXCEPT ![p] = Idle]
    /\ UNCHANGED <<table_mapping_file, pin_mapping_file, half_provisioned,
                   robot_data_log_file>>

\* update_order_status up to orders = load_orders()
update_order_status_load(p, order_id, s) ==
    /\ handlers[p] = Idle
    /\ handlers' = [handlers EXCEPT ![p] =
           [pc |-> "update_order_status", orders |-> load_orders,
            order_id |-> order_id, status |-> s]]
    /\ UNCHANGED <<orders_file, table_mapping_file, pin_mapping_file, response,
                   uuid_calls, half_provisioned,
                   robot_data_log_file>>

\* update_order_status from the status check to its return
update_order_status_save(p) ==
    /\ handlers[p].pc = "update_order_status"
    /\ LET orders == handlers[p].orders
           order_id == handlers[p].order_id
           s == handlers[p].status
           outcome == UpdateOutcome(orders, order_id, s)
       IN  IF outcome = 400
           THEN /\ response' = [op |-> "update_order_status", code |-> 400,
                                body |-> "Invalid status"]
                /\ UNCHANGED orders_file
           ELSE IF outcome = 404
           THEN /\ response' = [op |-> "update_order_status", code |-> 404,
                                body |-> "Order not found"]
                /\ UNCHANGED orders_file
           ELSE LET updated == SetStatus(orders, FindOrder(orders, order_id), s)
                IN  /\ save_orders(updated)
                    /\ response' = [op |-> "update_order_status", code |-> 200,
                                    body |-> updated[FindOrder(updated, order_id)]]
    /\ handlers' = [handlers EXCEPT ![p] = Idle]
    /\ UNCHANGED <<table_mapping_file, pin_mapping_file, uuid_calls,
                   half_provisioned, robot_data_log_file>>

CreateOrderLoadStep ==
    \E p \in Procs, it \in ItemLists, tot \in Totals :
        create_order_load(p, 1, it, tot, StepTimestamp, "pending")

CreateOrderSaveStep == \E p \in Procs : create_order_save(p)

UpdateOrderStatusLoadStep ==
    \E p \in Procs, id \in OrderUUIDs \cup {UnknownOrderId},
       s \in StepUpdateStatuses :
        update_order_status_load(p, id, s)

UpdateOrderStatusSaveStep == \E p \in Procs : update_order_status_save(p)

ConcurrentOrderNext ==
    \/ CreateOrderLoadStep
    \/ CreateOrderSaveStep
    \/ UpdateOrderStatusLoadStep
    \/ UpdateOrderStatusSaveStep

\* the mutating order endpoints served by processes that run side by side
ConcurrentOrderSpec == Init /\ [][ConcurrentOrderNext]_vars

(***************************************************************************)
(* Robot logs dashboard: the analytics endpoints read the mission log the  *)
(* robot writes and compute metrics, histograms and the error digest.      *)
(* A parsed datetime is <<day, hour>>: day 1 is 2024-01-01, and every      *)
(* timestamp of the model is on the hour.                                  *)
(***************************************************************************)
\* the log holds at most MaxMissions mission entries
MaxMissions == 2
\* the log holds at most MaxSessions sessions
MaxSessions == 1
\* the log holds at most MaxBrakeEvents brake events
MaxBrakeEvents == 2

\* d.get(key, default) on a JSON object
RecGet(d, key, default) == IF key \in DOMAIN d THEN d[key] ELSE default

\* the JSON object {}
EmptyDict == [k \in {} |-> 0]

\* the file as the robot leaves it
LogAbsent == [kind |-> "absent"]
LogUnreadable == [kind |-> "unreadable"]
LogJson(data) == [kind |-> "json", data |-> data]

\* load_robot_data: <<>> for None, <<data>> for the parsed JSON
load_robot_data ==
    IF robot_data_log_file.kind = "json"
    THEN <<robot_data_log_file.data>>
    ELSE <<>>

\* `not data` on what load_robot_data returned: None and {} are both false
NotData(data) == data = <<>> \/ DOMAIN data[1] = {}

\* the start_time strings of the log
StartTimes ==
    {"2024-01-02 02:00:00 PM", "2024-01-02 09:00:00.500",
     "2024-01-01 10:00:00", "2024-01-02 11:00:00 PM", "not-a-time", ""}

\* parse_timestamp: <<>> for None, <<datetime>> otherwise.  The first
\* format is 12-hour with AM/PM; the second is 24-hour, tried on the text
\* before the first '.'.
parse_timestamp(timestamp_str) ==
    CASE timestamp_str = "2024-01-02 02:00:00 PM" -> << <<2, 14>> >>
      [] timestamp_str = "2024-01-02 11:00:00 PM" -> << <<2, 23>> >>
      [] timestamp_str = "2024-01-02 09:00:00.500" -> << <<2, 9>> >>
      [] timestamp_str = "2024-01-01 10:00:00" -> << <<1, 10>> >>
      [] OTHER -> <<>>

\* datetime.now() values: 2024-01-02 at 15:00 and at 10:00
Nows == {<<2, 15>>, <<2, 10>>}

HoursPerDay == 24
\* a datetime as hours since day 0, 00:00
HoursOf(dt) == dt[1] * HoursPerDay + dt[2]

\* the `hours` argument every caller passes to calculate_hourly_orders
HistogramHours == 24
\* the `days` argument every caller passes to calculate_daily_trips
HistogramDays == 7

\* the loop body of calculate_hourly_orders: the mission adds one to the
\* bucket of `hour`
CountsInHour(mission, hour, now, hours) ==
    LET start_time_str == RecGet(mission, "start_time", "")
        mission_time == parse_timestamp(start_time_str)
    IN  /\ RecGet(mission, "is_delivery", FALSE)
        /\ start_time_str # ""
        /\ mission_time # <<>>
        /\ HoursOf(mission_time[1]) >= HoursOf(now) - hours
        /\ mission_time[1][2] = hour

RECURSIVE HourlyResult(_, _, _, _)
\* the result list of calculate_hourly_orders from hour i on:
\* for i in range(24): result.append({"hour": i, "orders": ...})
HourlyResult(i, missions, now, hours) ==
    IF i = 24 THEN <<>>
    ELSE <<[hour |-> i,
            orders |-> Cardinality({k \in 1..Len(missions) :
                           CountsInHour(missions[k], i, now, hours)})]>>
         \o HourlyResult(i + 1, missions, now, hours)

\* calculate_hourly_orders(data, hours) run at `now`
calculate_hourly_orders(data, hours, now) ==
    HourlyResult(0, RecGet(data, "all_missions", <<>>), now, hours)

\* date.strftime("%b %d") for the days around 2024-01-01
DateLabel(day) ==
    IF day >= 10 THEN "Jan " \o ToString(day)
    ELSE IF day >= 1 THEN "Jan 0" \o ToString(day)
    ELSE "Dec " \o ToString(31 + day)

\* the loop body of calculate_daily_trips: the mission adds one to the
\* bucket of `day`
CountsInDay(mission, day, now, days) ==
    LET start_time_str == RecGet(mission, "start_time", "")
        mission_time == parse_timestamp(start_time_str)
    IN  /\ start_time_str # ""
        /\ mission_time # <<>>
        /\ mission_time[1][1] = day
        /\ (HoursOf(now) - HoursOf(mission_time[1])) \div HoursPerDay <= days

RECURSIVE DailyResult(_, _, _, _)
\* the result list of calculate_daily_trips from i days ago on:
\* for i in range(days - 1, -1, -1): result.append({"date": ..., "trips": ...})
DailyResult(i, missions, now, days) ==
    IF i < 0 THEN <<>>
    ELSE <<[date |-> DateLabel(now[1] - i),
            trips |-> Cardinality({k \in 1..Len(missions) :
                          CountsInDay(missions[k], now[1] - i, now, days)})]>>
         \o DailyResult(i - 1, missions, now, days)

\* calculate_daily_trips(data, days) run at `now`
calculate_daily_trips(data, days, now) ==
    DailyResult(days - 1, RecGet(data, "all_missions", <<>>), now, days)

\* `mission_id and ...`: a missing, null or empty mission_id is false
MissionIdTruthy(mission) ==
    "mission_id" \in DOMAIN mission /\ mission.mission_id # ""

RECURSIVE UniqueMissions_KeepAll(_, _)
\* every entry with a mission_id kept
UniqueMissions_KeepAll(missions, seen) ==
    IF missions = <<>> THEN <<>>
    ELSE (IF MissionIdTruthy(Head(missions)) THEN <<Head(missions)>> ELSE <<>>)
         \o UniqueMissions_KeepAll(Tail(missions), seen)

RECURSIVE UniqueMissions(_, _)
\* list(unique_missions.values()): the entries kept by the loop over
\* `missions`, `seen` being the keys of unique_missions so far
UniqueMissions(missions, seen) ==
    IF missions = <<>> THEN <<>>
    ELSE LET mission == Head(missions)
         IN  IF MissionIdTruthy(mission) /\ mission.mission_id \notin seen
             THEN <<mission>> \o UniqueMissions(Tail(missions),
                                                seen \cup {mission.mission_id})
             ELSE UniqueMissions(Tail(missions), seen)

RECURSIVE SumOf(_, _, _)
\* sum(x.get(key, 0) for x in list)
SumOf(list, key, default) ==
    IF list = <<>> THEN 0
    ELSE RecGet(Head(list), key, default) + SumOf(Tail(list), key, default)

\* round(num / den * scale, digits), as a whole number of 10^-digits units:
\* num * units / den to the nearest whole number, a tie to the even one
RoundedRatio(num, den, units) ==
    LET q == (num * units) \div den
        r == (num * units) % den
    IN  IF 2 * r > den \/ (2 * r = den /\ q % 2 = 1) THEN q + 1 ELSE q

\* the ratio computed without the zero test, a zero denominator giving the
\* largest value
GuardedRatio_Unguarded(num, den, units) ==
    IF den = 0 THEN 999999 ELSE RoundedRatio(num, den, units)

\* (num / den * scale) if den > 0 else 0, then rounded
GuardedRatio(num, den, units) ==
    IF den > 0 THEN RoundedRatio(num, den, units) ELSE 0

\* total_runtime of calculate_metrics
TotalRuntime(sessions, total_moving_time, total_idle_time) ==
    IF sessions # <<>>
    THEN SumOf(sessions, "session_duration_sec", 0)
    ELSE total_moving_time + total_idle_time

\* max(hourly_orders, key=lambda x: x["orders"])["hour"]: the first maximum
PeakBusyHour(hourly_orders) ==
    hourly_orders[
        CHOOSE i \in 1..Len(hourly_orders) :
            /\ \A j \in 1..Len(hourly_orders) :
                  hourly_orders[j].orders <= hourly_orders[i].orders
            /\ \A j \in 1..(i - 1) :
                  hourly_orders[j].orders < hourly_orders[i].orders].hour

\* calculate_metrics(data) run at `now`, data being a non-empty JSON object
\* (the `if not data` test is made by MetricsOf).  Rounded values are whole
\* numbers of their last digit: tenths for ordersPerHour, robotUtilization
\* and successRate, hundredths for distanceCovered and avgRobotSpeed.
calculate_metrics(data, now) ==
    LET missions == RecGet(data, "all_missions", <<>>)
        sessions == RecGet(data, "sessions", <<>>)
        missions_list == UniqueMissions(missions, {})
        total_missions == Len(missions_list)
        completed_missions ==
            Len(SelectSeq(missions_list, LAMBDA m : RecGet(m, "status", "") = "COMPLETED"))
        failed_missions ==
            Len(SelectSeq(missions_list, LAMBDA m : RecGet(m, "status", "") = "FAILED"))
        total_deliveries ==
            Len(SelectSeq(missions_list, LAMBDA m : RecGet(m, "is_delivery", FALSE)))
        total_distance == SumOf(missions_list, "total_distance_m", 0)
        total_moving_time == SumOf(missions_list, "moving_time_sec", 0)
        total_idle_time == SumOf(missions_list, "idle_time_sec", 0)
        total_runtime == TotalRuntime(sessions, total_moving_time, total_idle_time)
        hourly_orders == calculate_hourly_orders(data, HistogramHours, now)
        daily_trips == calculate_daily_trips(data, HistogramDays, now)
    IN  [ordersPerHour |-> GuardedRatio(total_deliveries * 3600, total_runtime, 10),
         tripsPerDay |-> daily_trips[Len(daily_trips)].trips,
         robotUtilization |-> GuardedRatio(total_moving_time * 100, total_runtime, 10),
         successRate |-> GuardedRatio(completed_missions * 100, total_missions, 10),
         distanceCovered |-> RoundedRatio(total_distance, 1000, 100),
         avgRobotSpeed |-> GuardedRatio(total_distance, total_moving_time, 100),
         peakBusyHour |-> PeakBusyHour(hourly_orders)]

\* what calculate_metrics returns for what load_robot_data returned:
\* <<>> for None, <<metrics>> otherwise
MetricsOf(data, now) ==
    IF NotData(data) THEN <<>> ELSE <<calculate_metrics(data[1], now)>>

\* GET /api/qr-menu/admin/robot-logs/metrics
get_robot_logs_metrics(now) ==
    /\ LET data == load_robot_data
           metrics == MetricsOf(data, now)
       IN  response' =
             IF NotData(data)
             THEN [op |-> "get_robot_logs_metrics", code |-> 404,
                   body |-> "Robot data log file not found"]
             ELSE IF metrics = <<>>
             THEN [op |-> "get_robot_logs_metrics", code |-> 500,
                   body |-> "Failed to calculate metrics"]
             ELSE [op |-> "get_robot_logs_metrics", code |-> 200,
                   body |-> metrics[1]]
    /\ UNCHANGED <<orders_file, table_mapping_file, pin_mapping_file, aux>>

\* GET /api/qr-menu/admin/robot-logs/hourly-orders
get_hourly_orders(now) ==
    /\ LET data == load_robot_data
       IN  response' =
             IF NotData(data)
             THEN [op |-> "get_hourly_orders", code |-> 404,
                   body |-> "Robot data log file not found"]
             ELSE [op |-> "get_hourly_orders", code |-> 200,
                   body |-> calculate_hourly_orders(data[1], HistogramHours, now)]
    /\ UNCHANGED <<orders_file, table_mapping_file, pin_mapping_file, aux>>

\* GET /api/qr-menu/admin/robot-logs/daily-trips
get_daily_trips(now) ==
    /\ LET data == load_robot_data
       IN  response' =
             IF NotData(data)
             THEN [op |-> "get_daily_trips", code |-> 404,
                   body |-> "Robot data log file not found"]
             ELSE [op |-> "get_daily_trips", code |-> 200,
                   body |-> calculate_daily_trips(data[1], HistogramDays, now)]
    /\ UNCHANGED <<orders_file, table_mapping_file, pin_mapping_file, aux>>

\* `"goal" in str(status).lower()` for the status texts of the model
ContainsGoal(status) == status \in {"FAILED_GOAL", "GOAL_REACHED"}

\* max(list, key=lambda x: x.get(key, "")): the first entry no other entry
\* is above, by string comparison
LatestBy(list, key) ==
    list[CHOOSE i \in 1..Len(list) :
            /\ \A j \in 1..Len(list) :
                  ~StrLess(RecGet(list[i], key, ""), RecGet(list[j], key, ""))
            /\ \A j \in 1..(i - 1) :
                  StrLess(RecGet(list[j], key, ""), RecGet(list[i], key, ""))]

\* one entry of the digest, or none when `events` is empty
ErrorEntry(events, type, severity, count, key) ==
    IF events = <<>> THEN <<>>
    ELSE <<[type |-> type, severity |-> severity, count |-> count,
            timestamp |-> RecGet(LatestBy(events, key), key, "")]>>

\* the events whose engaged flag is set
BrakeEngaged(brake_events) ==
    SelectSeq(brake_events, LAMBDA e : RecGet(e, "engaged", FALSE))

\* the number of events whose engaged flag is not set
BrakeDisengagedCount(brake_events) ==
    Len(SelectSeq(brake_events, LAMBDA e : ~RecGet(e, "engaged", FALSE)))

\* the mission duration above which a mission counts as a timeout
NavigationTimeoutSec == 1800
\* the voltage below which a battery sample counts as low
LowBatteryVoltage == 20

\* get_error_logs(data), data being a non-empty JSON object
get_error_logs(data) ==
    LET brake_events == RecGet(data, "brake_events", <<>>)
        emergency_events == RecGet(data, "emergency_events", <<>>)
        missions == RecGet(data, "all_missions", <<>>)
        battery_samples == RecGet(data, "battery_samples", <<>>)
        failed_missions ==
            SelectSeq(missions, LAMBDA m : RecGet(m, "status", "") = "FAILED")
        goal_failures ==
            SelectSeq(missions, LAMBDA m :
                RecGet(m, "status", "") = "FAILED"
                    /\ ContainsGoal(RecGet(m, "status", "")))
        low_battery_events ==
            SelectSeq(battery_samples, LAMBDA x :
                "event" \in DOMAIN x
                    \/ RecGet(x, "voltage", 0) < LowBatteryVoltage)
        long_duration_missions ==
            SelectSeq(missions, LAMBDA m :
                RecGet(m, "total_duration_sec", 0) > NavigationTimeoutSec)
        active_emergencies ==
            SelectSeq(emergency_events, LAMBDA e : RecGet(e, "active", FALSE))
    IN  ErrorEntry(BrakeEngaged(brake_events), "Break Engage & Disengaged",
                   "medium",
                   Len(BrakeEngaged(brake_events))
                       + BrakeDisengagedCount(brake_events),
                   "timestamp")
        \o ErrorEntry(active_emergencies, "Emergency Break Occurrence", "high",
                      Len(active_emergencies), "timestamp")
        \o ErrorEntry(failed_missions, "Mission Fail", "high",
                      Len(failed_missions), "start_time")
        \o ErrorEntry(goal_failures, "Goal Fail", "high",
                      Len(goal_failures), "start_time")
        \o ErrorEntry(low_battery_events, "Battery Hit 20% Threshold", "medium",
                      Len(low_battery_events), "timestamp")
        \o ErrorEntry(long_duration_missions, "Navigation Timeout", "low",
                      Len(long_duration_missions), "start_time")

\* GET /api/qr-menu/admin/robot-logs/errors
get_robot_logs_errors ==
    /\ LET data == load_robot_data
       IN  response' =
             IF NotData(data)
             THEN [op |-> "get_robot_logs_errors", code |-> 404,
                   body |-> "Robot data log file not found"]
             ELSE [op |-> "get_robot_logs_errors", code |-> 200,
                   body |-> get_error_logs(data[1])]
    /\ UNCHANGED <<orders_file, table_mapping_file, pin_mapping_file, aux>>

\* GET /api/qr-menu/admin/robot-logs/dashboard
get_robot_logs_dashboard(now) ==
    /\ LET data == load_robot_data
           metrics == MetricsOf(data, now)
       IN  response' =
             IF NotData(data)
             THEN [op |-> "get_robot_logs_dashboard", code |-> 404,
                   body |-> "Robot data log file not found"]
             ELSE IF metrics = <<>>
             THEN [op |-> "get_robot_logs_dashboard", code |-> 500,
                   body |-> "Failed to calculate metrics"]
             ELSE [op |-> "get_robot_logs_dashboard", code |-> 200,
                   body |->
                     [hourlyOrders |->
                          calculate_hourly_orders(data[1], HistogramHours, now),
                      dailyTrips |->
                          calculate_daily_trips(data[1], HistogramDays, now),
                      errorLogs |-> get_error_logs(data[1])]
                     @@ metrics[1]]
    /\ UNCHANGED <<orders_file, table_mapping_file, pin_mapping_file, aux>>

(***************************************************************************)
(* The logs the robot has written when a dashboard endpoint is called.     *)
(***************************************************************************)
\* the lists of at most n entries drawn from S
ListsOf(S, n) == UNION {[1..k -> S] : k \in 0..n}

\* a mission that stood still and one that drove a delivery
MissionProfiles ==
    {[is_delivery |-> FALSE, total_distance_m |-> 0, moving_time_sec |-> 0,
      idle_time_sec |-> 0],
     [is_delivery |-> TRUE, total_distance_m |-> 1250, moving_time_sec |-> 600,
      idle_time_sec |-> 300]}

\* a completed mission of either profile, and a failed delivery
MissionOutcomes ==
    {<<st, pr>> \in {"COMPLETED", "FAILED"} \X MissionProfiles :
        st = "FAILED" => pr.is_delivery}

\* the mission entries of the metrics runs
MetricsMissions ==
    {[mission_id |-> id, status |-> o[1], is_delivery |-> o[2].is_delivery,
      start_time |-> "2024-01-02 02:00:00 PM",
      total_distance_m |-> o[2].total_distance_m,
      moving_time_sec |-> o[2].moving_time_sec,
      idle_time_sec |-> o[2].idle_time_sec,
      total_duration_sec |-> o[2].moving_time_sec + o[2].idle_time_sec] :
        id \in {"", "m1", "m2"}, o \in MissionOutcomes}

\* the session entries of the log
Sessions == {[session_duration_sec |-> d] : d \in {0, 3600}}

\* the log files of the metrics runs: none, a half-written one, {} and the
\* logs of some missions and sessions
MetricsLogs ==
    {LogAbsent, LogUnreadable, LogJson(EmptyDict)} \cup
    {LogJson([all_missions |-> ms, sessions |-> ss]) :
        ms \in ListsOf(MetricsMissions, MaxMissions),
        ss \in ListsOf(Sessions, MaxSessions)}

\* the server started next to a log the robot has written
InitWithLog(logs) ==
    /\ orders_file = <<>>
    /\ table_mapping_file = <<>>
    /\ pin_mapping_file = <<>>
    /\ response = [op |-> "none", code |-> 0, body |-> ""]
    /\ handlers = [p \in Procs |-> Idle]
    /\ uuid_calls = 0
    /\ half_provisioned = FALSE
    /\ robot_data_log_file \in logs

GetMetricsStep == \E now \in Nows : get_robot_logs_metrics(now)

\* the metrics endpoint called on each log
MetricsSpec == InitWithLog(MetricsLogs) /\ [][GetMetricsStep]_vars

\* the mission entries of the histogram runs
HourlyMissions ==
    {[mission_id |-> x[1], is_delivery |-> x[2], start_time |-> t] :
        x \in {<<"m1", TRUE>>, <<"m1", FALSE>>, <<"m2", TRUE>>},
        t \in StartTimes}

\* the log files of the histogram runs
HourlyLogs ==
    {LogAbsent, LogJson(EmptyDict)} \cup
    {LogJson([all_missions |-> ms]) : ms \in ListsOf(HourlyMissions, MaxMissions)}

GetHourlyOrdersStep == \E now \in Nows : get_hourly_orders(now)

\* the hourly histogram endpoint called on each log
HourlySpec == InitWithLog(HourlyLogs) /\ [][GetHourlyOrdersStep]_vars

\* the brake events of the log
BrakeEvents == {[engaged |-> e, timestamp |-> t] : e \in BOOLEAN, t \in Timestamps}

\* the mission entries of the digest runs
DigestMissions ==
    {[mission_id |-> "m1", status |-> st, start_time |-> t,
      total_duration_sec |-> d] :
        st \in {"COMPLETED", "FAILED", "FAILED_GOAL"}, t \in Timestamps,
        d \in {900, 2400}}

\* the emergency events and battery samples of the log: none, or one that
\* counts and one that does not
EmergencyLists ==
    {<<>>, <<[active |-> TRUE, timestamp |-> "2024-01-01T10:00:00"],
             [active |-> FALSE, timestamp |-> "2024-01-01T11:00:00"]>>}
BatteryLists ==
    {<<>>, <<[voltage |-> 19, timestamp |-> "2024-01-01T10:00:00"],
             [voltage |-> 24, timestamp |-> "2024-01-01T11:00:00"]>>}

\* the log files of the digest runs: none, {}, the logs of some brake
\* events, the logs of some missions, and those with emergency events and
\* battery samples next to one brake event and one mission
DigestLogs ==
    {LogAbsent, LogJson(EmptyDict)}
    \cup {LogJson([brake_events |-> bs]) :
             bs \in ListsOf(BrakeEvents, MaxBrakeEvents)}
    \cup {LogJson([all_missions |-> ms]) :
             ms \in ListsOf(DigestMissions, MaxMissions)}
    \cup {LogJson([brake_events |-> <<b>>, emergency_events |-> es,
                   all_missions |-> <<m>>, battery_samples |-> xs]) :
             b \in BrakeEvents, es \in EmergencyLists, m \in DigestMissions,
             xs \in BatteryLists}

\* the error digest endpoint called on each log
DigestSpec == InitWithLog(DigestLogs) /\ [][get_robot_logs_errors]_vars

(***************************************************************************)
(* The whole service: every endpoint, called one after another next to a   *)
(* log the robot has written.                                              *)
(***************************************************************************)
\* the log files of the service runs: none, {} and the log of one delivery
ServiceLogs ==
    {LogAbsent, LogJson(EmptyDict),
     LogJson([all_missions |->
                  <<[mission_id |-> "m1", status |-> "FAILED",
                     is_delivery |-> TRUE,
                     start_time |-> "2024-01-02 02:00:00 PM",
                     total_distance_m |-> 1250, moving_time_sec |-> 600,
                     idle_time_sec |-> 300, total_duration_sec |-> 900]>>,
              sessions |-> <<[session_duration_sec |-> 3600]>>,
              brake_events |->
                  <<[engaged |-> TRUE, timestamp |-> "2024-01-01T10:00:00"]>>])}

\* the clock of the service runs
ServiceNow == <<2, 15>>

ServiceCreateOrderStep ==
    \E s \in {"pending", "ready"} :
        create_order(1, <<TheItem>>, 500, StepTimestamp, s)

ServiceUpdateOrderStatusStep ==
    \E id \in {OrderUUID(1), UnknownOrderId} : update_order_status(id, "ready")

ServiceGetOrdersStep ==
    \E filters \in {<<<<>>, <<>>>>, <<<<1>>, <<"ready">>>>} :
        get_orders(filters[1], filters[2])

ServiceConfigureTablesStep == \E n \in {0, 1} : configure_tables(n)

ServiceCreateTableMappingStep ==
    \E n \in TableNumbers : create_table_mapping("a", n)

ServiceUpdateTableMappingStep ==
    \E token \in PathTokens, n \in TableNumbers : update_table_mapping(token, n)

ServiceBulkUpdateTablesStep ==
    \E d \in {<<>>, <<<<"a", 1>>>>} : bulk_update_tables(d)

ServiceNext ==
    \/ ServiceCreateOrderStep
    \/ ServiceUpdateOrderStatusStep
    \/ ServiceGetOrdersStep
    \/ get_ready_orders
    \/ ServiceConfigureTablesStep
    \/ ServiceCreateTableMappingStep
    \/ ServiceUpdateTableMappingStep
    \/ delete_table_mapping("a")
    \/ ServiceBulkUpdateTablesStep
    \/ ResolveTokenStep
    \/ ResolvePinStep
    \/ get_all_tables
    \/ get_robot_logs_metrics(ServiceNow)
    \/ get_hourly_orders(ServiceNow)
    \/ get_daily_trips(ServiceNow)
    \/ get_robot_logs_errors
    \/ get_robot_logs_dashboard(ServiceNow)

\* every endpoint of the service, called one after another
ServiceSpec == InitWithLog(ServiceLogs) /\ [][ServiceNext]_vars

(***************************************************************************)
(* Properties of the order store.                                          *)
(***************************************************************************)
\* the four statuses of the order lifecycle
OrderStatuses == {"pending", "ready", "delivered", "failed"}

\* the transitions of the lifecycle state machine
LegalTransitions ==
    {<<"pending", "ready">>, <<"pending", "failed">>,
     <<"ready", "delivered">>, <<"ready", "failed">>}

\* the orders stored under an id
StoredWithId(id) ==
    {i \in 1..Len(orders_file) : orders_file[i].order_id = id}

\* C1: create always succeeds and stores the new order with status
\* "pending", for every accepted request body, one that carries its own
\* status included.
C1_CreateStoresPending ==
    response.op = "create_order" =>
        /\ response.code = 200
        /\ \E i \in StoredWithId(response.body) :
              orders_file[i].status = "pending"

\* C2: in every reachable state the status of every stored order is one of
\* pending, ready, delivered, failed.
C2_StatusInEnum ==
    \A i \in 1..Len(orders_file) : orders_file[i].status \in OrderStatuses

\* C3 (as claimed): every status change of a stored order is a transition
\* of the state machine pending -> {ready, failed}, ready -> {delivered,
\* failed}; delivered and failed never change again.
C3_StateMachineEnforced ==
    [][\A i \in 1..Len(orders_file) :
          (/\ orders_file[i].status \in OrderStatuses
           /\ orders_file'[i].status # orders_file[i].status) =>
              <<orders_file[i].status, orders_file'[i].status>> \in LegalTransitions]_vars

\* C3 (amended): the state machine is not enforced; every status change of
\* a stored order sets one of the four valid statuses, whatever the status
\* before (delivered and failed included).
C3_ChangeToValidStatus ==
    [][\A i \in 1..Len(orders_file) :
          orders_file'[i].status # orders_file[i].status =>
              orders_file'[i].status \in OrderStatuses]_vars

\* C3 witness: an update has set an order back to pending
C3_Witness ==
    /\ response.op = "update_order_status"
    /\ response.code = 200
    /\ response.body.status = "pending"

\* C4: updateStatus(order_id, s) on an existing order with a valid s is
\* accepted whatever the current status is; afterwards the stored status
\* of that order is s and the returned order is that updated order.
C4_UpdateAccepted ==
    [][\A id \in OrderUUIDs, s \in OrderStatuses :
          (StoredWithId(id) # {} /\ update_order_status(id, s)) =>
              /\ response'.code = 200
              /\ \A i \in StoredWithId(id) :
                    /\ orders_file'[i].status = s
                    /\ response'.body = orders_file'[i]]_vars

\* C4 witness: an update of an existing order to delivered was accepted
C4_Witness ==
    /\ response.op = "update_order_status"
    /\ response.code = 200
    /\ response.body.status = "delivered"
    /\ \E i \in 1..Len(orders_file) : orders_file[i] = response.body

\* C5: updateStatus with a status outside the four fails with
\* InvalidArgument (400) and leaves the order store unchanged, whether or
\* not order_id exists.
C5_InvalidStatusRejected ==
    [][\A id \in OrderUUIDs \cup {UnknownOrderId},
          s \in StatusInputs \ OrderStatuses :
          update_order_status(id, s) =>
              /\ response'.code = 400
              /\ orders_file' = orders_file]_vars

\* C5 witness: an update was rejected as invalid while orders are stored
C5_Witness ==
    /\ response.op = "update_order_status"
    /\ response.code = 400
    /\ Len(orders_file) > 0

\* C6: updateStatus with a valid status and an order_id that is not in the
\* store fails with NotFound (404) and leaves the order store unchanged.
C6_UnknownOrderNotFound ==
    [][\A id \in OrderUUIDs \cup {UnknownOrderId}, s \in OrderStatuses :
          (StoredWithId(id) = {} /\ update_order_status(id, s)) =>
              /\ response'.code = 404
              /\ orders_file' = orders_file]_vars

\* C6 witness: an update was answered NotFound while orders are stored
C6_Witness ==
    /\ response.op = "update_order_status"
    /\ response.code = 404
    /\ Len(orders_file) > 0

\* the label "Table_<n>" of a table number
TableLabel(n) ==
    CASE n = 1 -> "Table_1"
      [] n = 2 -> "Table_2"
      [] OTHER -> "Table_?"

RECURSIVE ReadyProjection(_)
\* one pair per ready order, in store order
ReadyProjection(orders) ==
    IF orders = <<>>
    THEN <<>>
    ELSE (IF Head(orders).status = "ready"
          THEN <<[table_number |-> TableLabel(Head(orders).table_number),
                  order_id |-> Head(orders).order_id]>>
          ELSE <<>>) \o ReadyProjection(Tail(orders))

\* C7: listReady() returns, in store order, exactly one pair
\* {table_number: "Table_<n>", order_id} for each stored order whose status
\* is ready and nothing else, and the empty sequence, not an error, when no
\* order is ready.
C7_ListReadyProjection ==
    response.op = "get_ready_orders" =>
        /\ response.code = 200
        /\ response.body = ReadyProjection(orders_file)

\* C7 witness: listReady returned a ready order and left out another order
C7_Witness ==
    /\ response.op = "get_ready_orders"
    /\ Len(response.body) = 1
    /\ Len(orders_file) = 2
    /\ \E i \in 1..Len(orders_file) : orders_file[i].status = "delivered"

(***************************************************************************)
(* Properties of the identity store.                                       *)
(***************************************************************************)
\* no two entries of a mapping carry the same table number
Injective(mapping) ==
    \A i, j \in 1..Len(mapping) : i # j => mapping[i][2] # mapping[j][2]

\* the table numbers a mapping resolves to
TablesOf(mapping) == {mapping[i][2] : i \in 1..Len(mapping)}

\* C8: in every state reachable by provision, insert, updateTableNumber,
\* delete and bulkReplace calls, over all token strings, the empty string
\* included, no two distinct tokens map to the same table number.
C8_TokenMappingInjective == Injective(table_mapping_file)

\* C9: for every accepted n and whatever the random generators return, the
\* fallback of generate_table_pin included, provision(n) leaves a token
\* mapping of exactly n distinct tokens and a PIN mapping of exactly n
\* distinct PINs, each a bijection onto the table numbers 1..n.
C9_ProvisionBijective ==
    (response.op = "configure_tables" /\ response.code = 200) =>
        /\ Cardinality(DictKeys(table_mapping_file)) = response.body
        /\ Cardinality(DictKeys(pin_mapping_file)) = response.body
        /\ Injective(table_mapping_file)
        /\ Injective(pin_mapping_file)
        /\ TablesOf(table_mapping_file) = 1..response.body
        /\ TablesOf(pin_mapping_file) = 1..response.body

\* C10: provision(total_tables) with total_tables < 1 or > 100 fails with
\* InvalidArgument (400) and leaves the token mapping and the PIN mapping
\* exactly as they were.
C10_BadTotalTablesRejected ==
    [][\A n \in TotalTablesInputs :
          ((n < 1 \/ n > 100) /\ configure_tables(n)) =>
              /\ response'.code = 400
              /\ table_mapping_file' = table_mapping_file
              /\ pin_mapping_file' = pin_mapping_file]_vars

\* C10 witness: a provisioning call was rejected while both mappings hold
\* entries
C10_Witness ==
    /\ response.op = "configure_tables"
    /\ response.code = 400
    /\ Len(table_mapping_file) > 0
    /\ Len(pin_mapping_file) > 0

\* C11: bulk provisioning replaces the token mapping and the PIN mapping as
\* one unit: whenever no provisioning handler is running (so at every point
\* a resolve or listing operation runs, and after every crash), the token
\* mapping is not of a provisioning whose PIN mapping was never written.
C11_ProvisioningAtomic == AllIdle => ~half_provisioned

\* every token string of the model
AllTokens == BodyTokens \cup GeneratedTokens

\* what resolveByToken answers for a token mapping: <<code, body>>
Resolve(mapping, token) ==
    <<TableNumberResponse(mapping, token).code,
      TableNumberResponse(mapping, token).body>>

\* some token other than `token` maps to table number n
OwnedByOther(mapping, token, n) ==
    \E i \in 1..Len(mapping) : mapping[i][2] = n /\ mapping[i][1] # token

\* C12: after a successful insert(token, table_number),
\* resolveByToken(token) returns table_number and every other token
\* resolves exactly as it did before the insert.
C12_InsertRoundTrip ==
    [][\A token \in BodyTokens, n \in TableNumbers :
          (/\ response'.op = "create_table_mapping"
           /\ response'.code = 200
           /\ create_table_mapping(token, n)) =>
              /\ Resolve(table_mapping_file', token) = <<200, n>>
              /\ \A t \in AllTokens \ {token} :
                    Resolve(table_mapping_file', t) = Resolve(table_mapping_file, t)]_vars

\* C12 witness: an insert succeeded next to an entry that was there before
C12_Witness ==
    /\ response.op = "create_table_mapping"
    /\ response.code = 200
    /\ Len(table_mapping_file) = 2
    /\ Injective(table_mapping_file)

\* C13: insert(token, table_number) fails with Conflict (400) and leaves the
\* token mapping unchanged whenever token is already mapped or table_number
\* is already mapped to a different token, the empty token included.
C13_InsertConflict ==
    [][\A token \in BodyTokens, n \in TableNumbers :
          (/\ response'.op = "create_table_mapping"
           /\ (DictHas(table_mapping_file, token)
               \/ OwnedByOther(table_mapping_file, token, n))
           /\ create_table_mapping(token, n)) =>
              /\ response'.code = 400
              /\ table_mapping_file' = table_mapping_file]_vars

\* C14: updateTableNumber(token, n) fails with NotFound (404) when token is
\* absent and with Conflict (400) when n is owned by a different token,
\* leaving the mapping unchanged in both cases; otherwise it succeeds and
\* changes only that token's table number.
C14_UpdateTableNumber ==
    [][\A token \in PathTokens, n \in TableNumbers :
          (/\ response'.op = "update_table_mapping"
           /\ update_table_mapping(token, n)) =>
              IF ~DictHas(table_mapping_file, token)
              THEN /\ response'.code = 404
                   /\ table_mapping_file' = table_mapping_file
              ELSE IF OwnedByOther(table_mapping_file, token, n)
              THEN /\ response'.code = 400
                   /\ table_mapping_file' = table_mapping_file
              ELSE /\ response'.code = 200
                   /\ Resolve(table_mapping_file', token) = <<200, n>>
                   /\ Len(table_mapping_file') = Len(table_mapping_file)
                   /\ \A t \in AllTokens \ {token} :
                         Resolve(table_mapping_file', t) =
                             Resolve(table_mapping_file, t)]_vars

\* C15: delete(token) fails with NotFound (404) and changes nothing when
\* token is absent; when present it returns the token's table number and
\* removes exactly that entry: resolveByToken(token) is then NotFound and
\* all other tokens resolve as before.
C15_Delete ==
    [][\A token \in PathTokens :
          (/\ response'.op = "delete_table_mapping"
           /\ delete_table_mapping(token)) =>
              IF ~DictHas(table_mapping_file, token)
              THEN /\ response'.code = 404
                   /\ table_mapping_file' = table_mapping_file
              ELSE /\ response'.code = 200
                   /\ <<200, response'.body>> = Resolve(table_mapping_file, token)
                   /\ Resolve(table_mapping_file', token)[1] = 404
                   /\ Len(table_mapping_file') = Len(table_mapping_file) - 1
                   /\ \A t \in AllTokens \ {token} :
                         Resolve(table_mapping_file', t) =
                             Resolve(table_mapping_file, t)]_vars

\* C15 witness: a delete succeeded and left another entry in the mapping
C15_Witness ==
    /\ response.op = "delete_table_mapping"
    /\ response.code = 200
    /\ Len(table_mapping_file) = 1

\* a table number repeats across distinct tokens of a payload
RepeatsTableNumber(d) ==
    \E i, j \in 1..Len(d) : i # j /\ d[i][2] = d[j][2]

\* C16: bulkReplace(mapping) fails with InvalidArgument (400) and leaves the
\* stored token mapping unchanged when a table number repeats across
\* distinct tokens; otherwise the stored token mapping afterwards equals the
\* payload exactly.
C16_BulkReplace ==
    [][\A d \in BulkPayloads :
          (/\ response'.op = "bulk_update_tables"
           /\ bulk_update_tables(d)) =>
              IF RepeatsTableNumber(d)
              THEN /\ response'.code = 400
                   /\ table_mapping_file' = table_mapping_file
              ELSE /\ response'.code = 200
                   /\ table_mapping_file' = d
                   /\ \A t \in AllTokens :
                         Resolve(table_mapping_file', t) = Resolve(d, t)]_vars

\* C16 witness: a payload with a repeated table number was rejected while
\* the mapping holds entries
C16_Witness ==
    /\ response.op = "bulk_update_tables"
    /\ response.code = 400
    /\ Len(table_mapping_file) > 0

\* the stored orders that match every supplied filter
MatchingOrders(table, status) ==
    {orders_file[i] : i \in
        {j \in 1..Len(orders_file) :
            /\ table # <<>> => orders_file[j].table_number = table[1]
            /\ status # <<>> => orders_file[j].status = status[1]}}

\* C17: list(filter) returns exactly the stored orders that match every
\* supplied equality filter (table_number, status, combined with AND), in
\* non-increasing order of the timestamp string.
C17_ListFiltersAndSorts ==
    [][\A table \in TableFilters, status \in StatusFilters :
          (/\ response'.op = "get_orders"
           /\ get_orders(table, status)) =>
              LET body == response'.body
              IN  /\ {body[i] : i \in 1..Len(body)} = MatchingOrders(table, status)
                  /\ Len(body) = Cardinality(MatchingOrders(table, status))
                  /\ \A i, j \in 1..Len(body) :
                        i < j => ~StrLess(TimestampKey(body[i]),
                                            TimestampKey(body[j]))]_vars

\* C17 witness: a listing that had to reorder the stored orders
C17_Witness ==
    /\ response.op = "get_orders"
    /\ Len(response.body) = 2
    /\ response.body # orders_file
    /\ StrLess(response.body[2].timestamp, response.body[1].timestamp)

\* C18: run one request after another, the order store is append-only: each
\* create adds exactly one order at the end, no operation removes or
\* reorders orders, and the number of orders never decreases.
C18_AppendOnly ==
    [][/\ Len(orders_file') >= Len(orders_file)
       /\ \A i \in 1..Len(orders_file) :
             orders_file'[i].order_id = orders_file[i].order_id
       /\ response'.op # "create_order" => Len(orders_file') = Len(orders_file)
       /\ \A t \in OrderTables, it \in ItemLists, tot \in Totals,
             ts \in Timestamps, s \in StatusInputs :
             (response'.op = "create_order" /\ create_order(t, it, tot, ts, s)) =>
                 /\ Len(orders_file') = Len(orders_file) + 1
                 /\ SubSeq(orders_file', 1, Len(orders_file)) = orders_file
                 /\ orders_file'[Len(orders_file')].order_id = response'.body]_vars

\* C18 witness: a second order was appended after the first
C18_Witness ==
    /\ response.op = "create_order"
    /\ Len(orders_file) = 2
    /\ orders_file[2].order_id = response.body

\* the fields of an order other than its status
ImmutableFields(o) ==
    <<o.order_id, o.table_number, o.items, o.total, o.timestamp>>

\* C19: order_id, table_number, items, total and timestamp of a stored
\* order never change; a successful updateStatus changes only the status of
\* the one order it addresses.
C19_OnlyStatusChanges ==
    [][/\ \A i \in 1..Len(orders_file) :
             /\ i <= Len(orders_file')
             /\ ImmutableFields(orders_file'[i]) = ImmutableFields(orders_file[i])
       /\ \A id \in OrderUUIDs, s \in OrderStatuses :
             (/\ response'.op = "update_order_status"
              /\ response'.code = 200
              /\ update_order_status(id, s)) =>
                 /\ Len(orders_file') = Len(orders_file)
                 /\ \A i \in 1..Len(orders_file) :
                       orders_file[i].order_id # id =>
                           orders_file'[i] = orders_file[i]]_vars

\* C19 witness: one of two stored orders had its status changed, the other
\* still has another status
C19_Witness ==
    /\ response.op = "update_order_status"
    /\ response.code = 200
    /\ Len(orders_file) = 2
    /\ orders_file[1].status # orders_file[2].status
    /\ response.body.status = "failed"

\* C20: when two mutating order operations interleave their load and save,
\* the last whole-file write wins: a save stores the list its handler
\* loaded, with that handler's one change, whatever other handlers wrote to
\* the file in between, so their updates can be lost.
C20_LastWriteWins ==
    [][\A p \in Procs :
          /\ (handlers[p].pc = "create_order" /\ create_order_save(p)) =>
                /\ Len(orders_file') = Len(handlers[p].orders) + 1
                /\ SubSeq(orders_file', 1, Len(handlers[p].orders)) =
                       handlers[p].orders
                /\ orders_file'[Len(orders_file')].order_id = response'.body
          /\ (/\ handlers[p].pc = "update_order_status"
              /\ update_order_status_save(p)
              /\ response'.code = 200) =>
                /\ Len(orders_file') = Len(handlers[p].orders)
                /\ \A i \in 1..Len(orders_file') :
                      IF handlers[p].orders[i].order_id = handlers[p].order_id
                      THEN orders_file'[i] =
                               [handlers[p].orders[i] EXCEPT
                                   !.status = handlers[p].status]
                      ELSE orders_file'[i] = handlers[p].orders[i]]_vars

\* C20 witness: two creates have returned their order ids and the file
\* holds one order
C20_Witness ==
    /\ AllIdle
    /\ uuid_calls = 2
    /\ Len(orders_file) = 1

(***************************************************************************)
(* Properties of the robot logs dashboard.                                 *)
(***************************************************************************)
\* the all_missions list of the log file, <<>> when there is none
LoggedMissions ==
    IF robot_data_log_file.kind = "json"
    THEN RecGet(robot_data_log_file.data, "all_missions", <<>>)
    ELSE <<>>

\* the sessions list of the log file, <<>> when there is none
LoggedSessions ==
    IF robot_data_log_file.kind = "json"
    THEN RecGet(robot_data_log_file.data, "sessions", <<>>)
    ELSE <<>>

RECURSIVE FirstOccurrences(_, _, _)
\* the entries of missions[i..] whose mission_id is in `ids` and is carried
\* by no earlier entry of the log, in log order
FirstOccurrences(missions, i, ids) ==
    IF i > Len(missions) THEN <<>>
    ELSE (IF /\ missions[i].mission_id \in ids
             /\ \A j \in 1..(i - 1) :
                   missions[j].mission_id # missions[i].mission_id
          THEN <<missions[i]>>
          ELSE <<>>) \o FirstOccurrences(missions, i + 1, ids)

\* the aggregate figures of the metrics computed over the entries `counted`
AggregatesOver(counted, sessions) ==
    LET completed == Cardinality({k \in 1..Len(counted) :
                                     counted[k].status = "COMPLETED"})
        deliveries == Cardinality({k \in 1..Len(counted) :
                                      counted[k].is_delivery})
        distance == SumOf(counted, "total_distance_m", 0)
        moving == SumOf(counted, "moving_time_sec", 0)
        idle == SumOf(counted, "idle_time_sec", 0)
        runtime == IF sessions # <<>>
                   THEN SumOf(sessions, "session_duration_sec", 0)
                   ELSE moving + idle
    IN  [ordersPerHour |-> IF runtime > 0
                           THEN RoundedRatio(deliveries * 3600, runtime, 10)
                           ELSE 0,
         robotUtilization |-> IF runtime > 0
                              THEN RoundedRatio(moving * 100, runtime, 10)
                              ELSE 0,
         successRate |-> IF Len(counted) > 0
                         THEN RoundedRatio(completed * 100, Len(counted), 10)
                         ELSE 0,
         distanceCovered |-> RoundedRatio(distance, 1000, 100),
         avgRobotSpeed |-> IF moving > 0
                           THEN RoundedRatio(distance, moving, 100)
                           ELSE 0]

\* the aggregate figures of a metrics response
AggregatesIn(metrics) ==
    [ordersPerHour |-> metrics.ordersPerHour,
     robotUtilization |-> metrics.robotUtilization,
     successRate |-> metrics.successRate,
     distanceCovered |-> metrics.distanceCovered,
     avgRobotSpeed |-> metrics.avgRobotSpeed]

\* the metrics endpoint answered with metrics
MetricsReturned ==
    response.op = "get_robot_logs_metrics" /\ response.code = 200

\* the mission_id values of the log
LoggedMissionIds == {LoggedMissions[k].mission_id : k \in 1..Len(LoggedMissions)}

\* C21: in calculate_metrics, log entries sharing a mission_id count once,
\* by their first occurrence in log order: the figures derived from the
\* mission total, the counts and the sums are those of one entry per
\* distinct mission_id of the log.
C21_OneEntryPerMissionId ==
    MetricsReturned =>
        AggregatesIn(response.body) =
            AggregatesOver(FirstOccurrences(LoggedMissions, 1, LoggedMissionIds),
                           LoggedSessions)

\* C21 amended: the same, over one entry per distinct non-empty mission_id;
\* entries with an empty mission_id are not counted at all.
C21_OneEntryPerNonEmptyMissionId ==
    MetricsReturned =>
        AggregatesIn(response.body) =
            AggregatesOver(FirstOccurrences(LoggedMissions, 1,
                                            LoggedMissionIds \ {""}),
                           LoggedSessions)

\* C21 witness: metrics were returned for a log whose two first entries
\* share a mission_id and differ in status and in distance
C21_Witness ==
    /\ MetricsReturned
    /\ Len(LoggedMissions) >= 2
    /\ LoggedMissions[1].mission_id = LoggedMissions[2].mission_id
    /\ LoggedMissions[1].mission_id # ""
    /\ LoggedMissions[1].status # LoggedMissions[2].status
    /\ LoggedMissions[1].total_distance_m # LoggedMissions[2].total_distance_m

\* the mission started in [now - 24 h, now], in the hour `hour`
StartedInWindow(mission, hour, now) ==
    LET t == parse_timestamp(mission.start_time)
    IN  /\ t # <<>>
        /\ HoursOf(t[1]) >= HoursOf(now) - 24
        /\ HoursOf(t[1]) <= HoursOf(now)
        /\ t[1][2] = hour

\* C22: the hourly histogram has exactly 24 buckets ordered 0..23, and
\* bucket h is the number of deduplicated missions (one per mission_id)
\* that are deliveries and started, by a parseable start_time, within
\* [now - 24 h, now] in hour h; duplicate entries of a mission and missions
\* starting after now add to no bucket.
C22_HourlyHistogram ==
    [][\A now \in Nows :
          (/\ response'.op = "get_hourly_orders"
           /\ response'.code = 200
           /\ get_hourly_orders(now)) =>
              LET body == response'.body
                  deduplicated == FirstOccurrences(LoggedMissions, 1,
                                                   LoggedMissionIds)
              IN  /\ Len(body) = 24
                  /\ \A h \in 0..23 :
                        /\ body[h + 1].hour = h
                        /\ body[h + 1].orders =
                              Cardinality({k \in 1..Len(deduplicated) :
                                  /\ deduplicated[k].is_delivery
                                  /\ StartedInWindow(deduplicated[k], h, now)})]_vars

\* the metrics endpoint answered
MetricsAnswered == response.op = "get_robot_logs_metrics"

\* every figure of a metrics response is zero
ZeroValued(metrics) ==
    /\ metrics.ordersPerHour = 0
    /\ metrics.tripsPerDay = 0
    /\ metrics.robotUtilization = 0
    /\ metrics.successRate = 0
    /\ metrics.distanceCovered = 0
    /\ metrics.avgRobotSpeed = 0
    /\ metrics.peakBusyHour = 0

\* C23: when the mission log file is present but empty (the JSON object
\* {}), the metrics operation returns zero-valued metrics and signals no
\* error; only an absent or unreadable log yields the NotFound signal.
C23_EmptyLogGivesZeroMetrics ==
    MetricsAnswered =>
        /\ robot_data_log_file = LogJson(EmptyDict) =>
              response.code = 200 /\ ZeroValued(response.body)
        /\ response.code = 404 =>
              robot_data_log_file \in {LogAbsent, LogUnreadable}

\* the brake_events list of the log file, <<>> when there is none
LoggedBrakeEvents ==
    IF robot_data_log_file.kind = "json"
    THEN RecGet(robot_data_log_file.data, "brake_events", <<>>)
    ELSE <<>>

\* the digest endpoint answered with a digest
DigestReturned ==
    response.op = "get_robot_logs_errors" /\ response.code = 200

\* the entries of the returned digest of one type
EntriesOfType(type) ==
    {k \in 1..Len(response.body) : response.body[k].type = type}

\* a mission that failed: its status text says so
FailedStatus(status) == status \in {"FAILED", "FAILED_GOAL"}

\* C24: whenever the log holds at least one failed mission whose status
\* text contains "goal", the error digest has a separate goal-failure entry
\* of severity high whose count is the number of such missions.
C24_GoalFailureEntry ==
    DigestReturned =>
        LET goal_failed == {k \in 1..Len(LoggedMissions) :
                               /\ FailedStatus(LoggedMissions[k].status)
                               /\ ContainsGoal(LoggedMissions[k].status)}
        IN  goal_failed # {} =>
                \E k \in EntriesOfType("Goal Fail") :
                    /\ response.body[k].severity = "high"
                    /\ response.body[k].count = Cardinality(goal_failed)

\* C25: whenever the log holds at least one brake event, engaged or
\* disengaged, the error digest has exactly one brake entry, of severity
\* medium, whose count is the number of brake events and whose timestamp is
\* the greatest timestamp string among the engaged events; with no brake
\* event there is no brake entry.
C25_BrakeEntry ==
    DigestReturned =>
        LET brake == EntriesOfType("Break Engage & Disengaged")
            engaged == {k \in 1..Len(LoggedBrakeEvents) :
                           LoggedBrakeEvents[k].engaged}
        IN  IF LoggedBrakeEvents = <<>>
            THEN brake = {}
            ELSE /\ Cardinality(brake) = 1
                 /\ \A k \in brake :
                       /\ response.body[k].severity = "medium"
                       /\ response.body[k].count = Len(LoggedBrakeEvents)
                       /\ \A e \in engaged :
                             ~StrLess(response.body[k].timestamp,
                                      LoggedBrakeEvents[e].timestamp)
                       /\ engaged # {} =>
                             \E e \in engaged :
                                 response.body[k].timestamp =
                                     LoggedBrakeEvents[e].timestamp

\* the deduplicated missions of the log
CountedMissions == UniqueMissions(LoggedMissions, {})

\* total_runtime as the metrics define it: the sum of the session durations
\* if any session exists, otherwise moving + idle time over the
\* deduplicated missions `counted`
RuntimeOfLog(counted) ==
    IF Len(LoggedSessions) > 0
    THEN SumOf(LoggedSessions, "session_duration_sec", 0)
    ELSE SumOf(counted, "moving_time_sec", 0)
             + SumOf(counted, "idle_time_sec", 0)

\* the zero cases of the ratios, for the deduplicated missions `counted`,
\* their moving time and the runtime
ZeroCases(metrics, counted, moving, runtime) ==
    /\ Len(counted) = 0 => metrics.successRate = 0
    /\ runtime = 0 => metrics.robotUtilization = 0 /\ metrics.ordersPerHour = 0
    /\ runtime > 0 =>
          metrics.robotUtilization = RoundedRatio(moving * 100, runtime, 10)
    /\ moving = 0 => metrics.avgRobotSpeed = 0

\* C26: calculate_metrics never fails on a zero denominator: successRate is
\* 0 when there are no missions, robotUtilization and ordersPerHour are 0
\* when total_runtime is 0, and avgRobotSpeed is 0 when the total moving
\* time is 0.
C26_ZeroDenominators ==
    /\ (MetricsAnswered /\ ~NotData(load_robot_data)) => response.code = 200
    /\ MetricsReturned =>
          LET counted == CountedMissions
          IN  ZeroCases(response.body, counted,
                        SumOf(counted, "moving_time_sec", 0),
                        RuntimeOfLog(counted))

\* C26 witness: metrics were returned for a log whose only session lasted 0
\* seconds while a counted mission was a delivery that moved
C26_Witness ==
    /\ MetricsReturned
    /\ LoggedSessions = <<[session_duration_sec |-> 0]>>
    /\ \E k \in 1..Len(LoggedMissions) :
          /\ LoggedMissions[k].mission_id # ""
          /\ LoggedMissions[k].is_delivery
          /\ LoggedMissions[k].moving_time_sec > 0
    /\ response.body.ordersPerHour = 0

\* C27: in every state reached by provision, insert, updateTableNumber,
\* delete and bulkReplace calls, the set of table numbers some token
\* resolves to equals the set of table numbers some PIN resolves to.
C27_TokenAndPinTablesAgree ==
    {n \in TableNumbers : \E t \in AllTokens :
        Resolve(table_mapping_file, t) = <<200, n>>}
    = {n \in TableNumbers : \E pin \in PathPins :
        MappingGet(pin_mapping_file, pin) = <<n>>}

(***************************************************************************)
(* Frame conditions of the endpoints.                                      *)
(***************************************************************************)
\* the endpoints that read the stores, those of the dashboard, those that
\* change orders and those that change the identity mappings
ReadOps ==
    {"get_table_number", "get_table_number_from_pin", "get_all_tables",
     "get_orders", "get_ready_orders"}
AnalyticsOps ==
    {"get_robot_logs_metrics", "get_hourly_orders", "get_daily_trips",
     "get_robot_logs_errors", "get_robot_logs_dashboard"}
OrderOps == {"create_order", "update_order_status"}
IdentityOps ==
    {"configure_tables", "create_table_mapping", "update_table_mapping",
     "delete_table_mapping", "bulk_update_tables"}

\* C28: the read endpoints (token and PIN resolution, the table listing, the
\* order listing and the ready listing) and every analytics endpoint leave
\* the token mapping, the PIN mapping and the order store as they were; the
\* order endpoints leave both mappings as they were, and the identity
\* endpoints leave the order store as it was.
C28_FrameConditions ==
    [][/\ response'.op \in ReadOps \cup AnalyticsOps =>
              UNCHANGED <<table_mapping_file, pin_mapping_file, orders_file>>
       /\ response'.op \in OrderOps =>
              UNCHANGED <<table_mapping_file, pin_mapping_file>>
       /\ response'.op \in IdentityOps => UNCHANGED orders_file]_vars

\* the dashboard answered with every store filled, the token mapping not in
\* the order of its table numbers
C28_Witness ==
    /\ response.op = "get_robot_logs_dashboard"
    /\ response.code = 200
    /\ orders_file # <<>>
    /\ pin_mapping_file # <<>>
    /\ Len(table_mapping_file) = 2
    /\ table_mapping_file[1][2] > table_mapping_file[2][2]

====
